---- MODULE Spec2Model ----
(***************************************************************************)
(* Transport and session layer of mcp_jira_confluence/sse_server.py:       *)
(* the /mcp request processor with its per-request client substitution,    *)
(* the credential resolution from request headers, and the SSE session     *)
(* manager with its per-connection streaming loop.                         *)
(***************************************************************************)
EXTENDS Integers, Sequences, FiniteSets, TLC

VARIABLES
    jira_client,            \* sse_server.jira_client: the default Jira client
    confluence_client,      \* sse_server.confluence_client: the default Confluence client
    sm_jira_client,         \* server_module.jira_client (read by the dispatcher handlers)
    sm_confluence_client,   \* server_module.confluence_client
    req,                    \* per /mcp request: position and locals of mcp_endpoint / process_mcp_request
    resp,                   \* per /mcp request: the envelopes returned to the caller
    fault,                  \* per /mcp request: an exception left mcp_endpoint
    seen,                   \* per /mcp request: the client pair its handler invocation read last
    connected_clients,      \* sse_transport.connected_clients
    queue,                  \* per SSE connection: contents of its asyncio.Queue
    conn,                   \* per SSE connection: position and locals of sse_endpoint / event_stream
    frames,                 \* per SSE connection: frames handed to the transport
    enqueued,               \* per SSE connection: every string ever put on its queue, in order
    removals,               \* per SSE connection: calls of remove_client for its queue
    sent,                   \* number of send_message calls completed
    logged,                 \* clients whose put raised in the latest send_message (logger.error)
    remove_raised,          \* a call of remove_client raised
    life,                   \* lifespan: its position, the calls it made on the default clients, its log
    health                  \* the outcome of the latest GET /health

vars == <<jira_client, confluence_client, sm_jira_client, sm_confluence_client,
          req, resp, fault, seen,
          connected_clients, queue, conn, frames, enqueued, removals, sent, logged,
          remove_raised, life, health>>

rpcVars == <<jira_client, confluence_client, sm_jira_client, sm_confluence_client,
             req, resp, fault, seen>>

sseVars == <<connected_clients, queue, conn, frames, enqueued, removals, sent, logged,
             remove_raised>>

lifeVars == <<life, health>>

----------------------------------------------------------------------------
(* Bounds *)

MaxReq == 2          \* /mcp requests that may be in flight together
MaxConn == 2         \* SSE connections
MaxSent == 2         \* send_message calls
MaxBeats == 2        \* heartbeat timeouts per connection
MaxRemovals == 2     \* remove_client calls per queue

Reqs == 1 .. MaxReq
Conns == 1 .. MaxConn

----------------------------------------------------------------------------
(* Python values.  A str is a sequence of one-character strings; an        *)
(* Optional[str] is a record whose `some` field is FALSE for None.         *)

None == [some |-> FALSE, v |-> <<>>]
Some(s) == [some |-> TRUE, v |-> s]

\* bool(x) of an Optional[str]: None and "" are both falsy
Truthy(x) == x.some /\ x.v # <<>>

\* str.startswith
StartsWith(s, p) == Len(s) >= Len(p) /\ SubSeq(s, 1, Len(p)) = p

\* s[n:] (n counts from 0)
SliceFrom(s, n) == SubSeq(s, n + 1, Len(s))

BearerPrefix == <<"B", "e", "a", "r", "e", "r", " ">>
BearerPrefixLen == 7

----------------------------------------------------------------------------
(* Credential resolution from the request headers *)

\* The bearer token is not taken for Jira
ResolveSkipsJira(auth_header, jira_token, confluence_token) ==
    IF Truthy(auth_header) /\ StartsWith(auth_header.v, BearerPrefix)
    THEN LET token == Some(SliceFrom(auth_header.v, BearerPrefixLen)) IN
         [jira |-> jira_token,
          confluence |-> IF ~Truthy(confluence_token) THEN token ELSE confluence_token]
    ELSE [jira |-> jira_token, confluence |-> confluence_token]

\* The Jira header is taken for Confluence ahead of the bearer token
ResolveLeaksAcross(auth_header, jira_token, confluence_token) ==
    IF Truthy(auth_header) /\ StartsWith(auth_header.v, BearerPrefix)
    THEN LET token == Some(SliceFrom(auth_header.v, BearerPrefixLen)) IN
         [jira |-> IF ~Truthy(jira_token) THEN token ELSE jira_token,
          confluence |-> IF ~Truthy(confluence_token)
                         THEN (IF Truthy(jira_token) THEN jira_token ELSE token)
                         ELSE confluence_token]
    ELSE [jira |-> jira_token, confluence |-> confluence_token]

\* mcp_endpoint: the tokens handed to process_mcp_request
McpResolveTokens(auth_header, jira_token, confluence_token) ==
    IF Truthy(auth_header) /\ StartsWith(auth_header.v, BearerPrefix)
    THEN LET token == Some(SliceFrom(auth_header.v, BearerPrefixLen)) IN
         [jira |-> IF ~Truthy(jira_token) THEN token ELSE jira_token,
          confluence |-> IF ~Truthy(confluence_token) THEN token ELSE confluence_token]
    ELSE [jira |-> jira_token, confluence |-> confluence_token]

\* sse_endpoint: the tokens used for the temporary configs
SseResolveTokens(auth_header, jira_token, confluence_token) ==
    IF Truthy(auth_header) /\ StartsWith(auth_header.v, BearerPrefix)
    THEN LET token == Some(SliceFrom(auth_header.v, BearerPrefixLen)) IN
         [jira |-> IF ~Truthy(jira_token) THEN token ELSE jira_token,
          confluence |-> IF ~Truthy(confluence_token) THEN token ELSE confluence_token]
    ELSE [jira |-> jira_token, confluence |-> confluence_token]

----------------------------------------------------------------------------
(* Configs and clients *)

NoConfig == [url |-> "", personal_token |-> None, ssl_verify |-> FALSE, some |-> FALSE]

\* JiraConfig(url=..., personal_token=..., ssl_verify=...) / ConfluenceConfig(...)
Config(url, personal_token, ssl_verify) ==
    [url |-> url, personal_token |-> personal_token, ssl_verify |-> ssl_verify, some |-> TRUE]

\* A client object: owner 0 is the process-wide singleton, owner r > 0 the
\* temporary client constructed while serving request r.
Client(svc, owner, config) == [svc |-> svc, owner |-> owner, config |-> config]
NoClient == [svc |-> "none", owner |-> 0, config |-> NoConfig]

DefaultJiraClient == Client("jira", 0, Config("https://jira", None, TRUE))
DefaultConfluenceClient == Client("confluence", 0, Config("https://wiki", None, FALSE))

\* `a or b` on client objects
OrElse(a, b) == IF a # NoClient THEN a ELSE b

----------------------------------------------------------------------------
(* JSON-RPC envelopes *)

NoId == [some |-> FALSE, v |-> 0]            \* request_data.get("id") is None
Id(n) == [some |-> TRUE, v |-> n]
NoMethod == [some |-> FALSE, v |-> ""]       \* request_data.get("method") is None
Method(m) == [some |-> TRUE, v |-> m]

\* params: key absent, a JSON value that is no object, or an object that
\* holds or lacks the keys "name" and "arguments"
NoParams == [kind |-> "absent", name |-> FALSE, arguments |-> FALSE]
BadParams == [kind |-> "nonobject", name |-> FALSE, arguments |-> FALSE]
Params(name, arguments) == [kind |-> "object", name |-> name, arguments |-> arguments]

\* The request body: text that json cannot parse, a JSON value that is no
\* object, or a JSON object.
Unparseable == [kind |-> "unparseable", id |-> NoId, method |-> NoMethod, params |-> NoParams]
NonObject == [kind |-> "nonobject", id |-> NoId, method |-> NoMethod, params |-> NoParams]
Object(id, method, params) == [kind |-> "object", id |-> id, method |-> method, params |-> params]
NoBody == [kind |-> "none", id |-> NoId, method |-> NoMethod, params |-> NoParams]

Headers(authorization, x_jira_token, x_confluence_token) ==
    [authorization |-> authorization, x_jira_token |-> x_jira_token,
     x_confluence_token |-> x_confluence_token]
NoHeaders == Headers(None, None, None)

NoData == "<absent>"
InternalErrorCode == -32603
MethodNotFoundCode == -32601

ResultEnvelope(id, content) ==
    [jsonrpc |-> "2.0", id |-> id, kind |-> "result", code |-> 0,
     message |-> "", data |-> NoData, content |-> content]
ErrorEnvelope(id, code, message, data) ==
    [jsonrpc |-> "2.0", id |-> id, kind |-> "error", code |-> code,
     message |-> message, data |-> data, content |-> ""]

\* f"{method}" of an Optional[str]
Fmt(method) == IF method.some THEN method.v ELSE "None"

----------------------------------------------------------------------------
(* POST /mcp *)

IdleReq ==
    [pc |-> "idle", body |-> NoBody, headers |-> NoHeaders,
     jira_token |-> None, confluence_token |-> None,
     temp_jira_client |-> NoClient, temp_confluence_client |-> NoClient,
     active_jira_client |-> NoClient, active_confluence_client |-> NoClient,
     original_jira |-> NoClient, original_confluence |-> NoClient,
     invoked |-> "none",
     process_called |-> FALSE,   \* history: process_mcp_request was entered
     raised |-> "none"]          \* history: the step of the request that raised

\* A temporary Jira client is built whatever the token is
TempJiraClientAlways(r, jira_token) ==
    Client("jira", r,
           Config(jira_client.config.url, jira_token, jira_client.config.ssl_verify))

\* The temporary Confluence client is configured from the default Jira client
TempConfluenceClientJiraConfig(r, confluence_token) ==
    IF Truthy(confluence_token)
    THEN Client("confluence", r,
                Config(jira_client.config.url, confluence_token,
                       jira_client.config.ssl_verify))
    ELSE NoClient

\* The temporary client of request r for a service, or no client when the
\* token is falsy.
TempJiraClient(r, jira_token) ==
    IF Truthy(jira_token)
    THEN Client("jira", r,
                Config(jira_client.config.url, jira_token, jira_client.config.ssl_verify))
    ELSE NoClient

TempConfluenceClient(r, confluence_token) ==
    IF Truthy(confluence_token)
    THEN Client("confluence", r,
                Config(confluence_client.config.url, confluence_token,
                       confluence_client.config.ssl_verify))
    ELSE NoClient

\* The request is answered: its envelope goes back to the caller.
Answer(r, rec, envelope) ==
    /\ req' = [req EXCEPT ![r] = [rec EXCEPT !.pc = "done"]]
    /\ resp' = [resp EXCEPT ![r] = Append(@, envelope)]

\* The envelope of the except clause carries no id
OuterExceptDropsId(r, rec, data) ==
    Answer(r, rec, ErrorEnvelope(NoId, InternalErrorCode, "Internal error", data))

\* The outer `except Exception` of process_mcp_request
OuterExcept(r, rec, data) ==
    Answer(r, rec, ErrorEnvelope(rec.body.id, InternalErrorCode, "Internal error", data))

\* The temporary clients are installed first and saved as the originals
SwapAndCallSavesInstalled(r, rec, handler) ==
    /\ req' = [req EXCEPT ![r] =
                 [rec EXCEPT !.pc = "in_handler", !.invoked = handler,
                             !.original_jira = OrElse(rec.temp_jira_client, sm_jira_client),
                             !.original_confluence =
                                 OrElse(rec.temp_confluence_client, sm_confluence_client)]]
    /\ sm_jira_client' = OrElse(rec.temp_jira_client, sm_jira_client)
    /\ sm_confluence_client' = OrElse(rec.temp_confluence_client, sm_confluence_client)
    /\ UNCHANGED resp

\* try: save the module's clients, install the temporary ones, await the handler
SwapAndCall(r, rec, handler) ==
    /\ req' = [req EXCEPT ![r] =
                 [rec EXCEPT !.pc = "in_handler", !.invoked = handler,
                             !.original_jira = sm_jira_client,
                             !.original_confluence = sm_confluence_client]]
    /\ sm_jira_client' =
         IF rec.temp_jira_client # NoClient THEN rec.temp_jira_client ELSE sm_jira_client
    /\ sm_confluence_client' =
         IF rec.temp_confluence_client # NoClient THEN rec.temp_confluence_client
         ELSE sm_confluence_client
    /\ UNCHANGED resp

\* No finally clause: the module's clients stay as the handler left them
RestoreNothing(rec) ==
    UNCHANGED <<sm_jira_client, sm_confluence_client>>

\* finally: restore the module's clients
Restore(rec) ==
    /\ sm_jira_client' = rec.original_jira
    /\ sm_confluence_client' = rec.original_confluence

\* The request path empties the active set
TransportReset ==
    /\ connected_clients' = {}
    /\ UNCHANGED <<queue, conn, frames, enqueued, removals, sent, logged, remove_raised>>

\* mcp_endpoint and process_mcp_request call nothing of sse_transport
NoTransportCall == UNCHANGED sseVars

\* tools/list installs the temporary clients as tools/call does; nothing
\* restores them when its handler ends
CallListToolsInstalls(r, rec) == SwapAndCall(r, rec, "handle_list_tools")

\* tools/list: await the handler with the module's clients left as they are
CallListTools(r, rec) ==
    /\ req' = [req EXCEPT ![r] = [rec EXCEPT !.pc = "in_handler",
                                             !.invoked = "handle_list_tools"]]
    /\ UNCHANGED <<resp, sm_jira_client, sm_confluence_client>>

\* The else branch answers with the method it was given and with no id
MethodNotFoundDropsId(r, rec) ==
    Answer(r, rec, ErrorEnvelope(NoId, MethodNotFoundCode,
                                 "Method not found: " \o Fmt(rec.body.method), NoData))

\* The else branch of the method dispatch
MethodNotFound(r, rec) ==
    Answer(r, rec, ErrorEnvelope(rec.body.id, MethodNotFoundCode,
                                 "Method not found: " \o Fmt(rec.body.method), NoData))

\* process_mcp_request up to its first await or its return; ctor tells whether
\* constructing a temporary client succeeds
ProcessMcpRequest(r, rec1, ctor) ==
    LET rec0 == [rec1 EXCEPT !.process_called = TRUE] IN
    IF (Truthy(rec0.jira_token) \/ Truthy(rec0.confluence_token)) /\ ctor = "raise"
    THEN /\ OuterExcept(r, [rec0 EXCEPT !.raised = "ctor"], "str(e)")
         /\ UNCHANGED <<sm_jira_client, sm_confluence_client>>
    ELSE
    LET rec == [rec0 EXCEPT
                  !.temp_jira_client = TempJiraClient(r, rec0.jira_token),
                  !.temp_confluence_client = TempConfluenceClient(r, rec0.confluence_token),
                  !.active_jira_client =
                      OrElse(TempJiraClient(r, rec0.jira_token), jira_client),
                  !.active_confluence_client =
                      OrElse(TempConfluenceClient(r, rec0.confluence_token),
                             confluence_client)]
        method == rec.body.method
        params == rec.body.params
        request_id == rec.body.id
    IN  CASE method = Method("initialize") ->
               /\ Answer(r, rec, ResultEnvelope(request_id, "capabilities"))
               /\ UNCHANGED <<sm_jira_client, sm_confluence_client>>
          [] method = Method("tools/list") ->
               CallListTools(r, rec)
          [] method = Method("tools/call") ->
               IF params.kind = "nonobject"
               THEN /\ OuterExcept(r, [rec EXCEPT !.raised = "params"], "str(e)")
                    /\ UNCHANGED <<sm_jira_client, sm_confluence_client>>
               ELSE SwapAndCall(r, rec, "handle_call_tool")
          [] method = Method("resources/list") ->
               SwapAndCall(r, rec, "handle_list_resources")
          [] OTHER ->
               /\ MethodNotFound(r, rec)
               /\ UNCHANGED <<sm_jira_client, sm_confluence_client>>

\* The except clause reads request_data, which is unbound: NameError leaves
\* mcp_endpoint
ParseFailureUnguarded(r, rec) ==
    /\ req' = [req EXCEPT ![r] = [rec EXCEPT !.pc = "done"]]
    /\ fault' = [fault EXCEPT ![r] = TRUE]
    /\ UNCHANGED resp

\* request.json() raises: the except clause of mcp_endpoint answers; request_data
\* is not among locals(), so the id is None
ParseFailure(r, rec) ==
    /\ Answer(r, rec, ErrorEnvelope(NoId, InternalErrorCode, "Internal error", "str(e)"))
    /\ UNCHANGED fault

\* mcp_endpoint: parse the body, resolve the tokens, call process_mcp_request
McpEndpoint(r, body, headers, ctor) ==
    /\ req[r].pc = "idle"
    /\ LET tokens == McpResolveTokens(headers.authorization, headers.x_jira_token,
                                      headers.x_confluence_token)
           rec == [req[r] EXCEPT !.body = body, !.headers = headers,
                                 !.jira_token = tokens.jira,
                                 !.confluence_token = tokens.confluence]
       IN  CASE body.kind = "unparseable" ->
                  /\ ParseFailure(r, [req[r] EXCEPT !.body = body, !.headers = headers,
                                                    !.raised = "parse"])
                  /\ UNCHANGED <<sm_jira_client, sm_confluence_client>>
             [] body.kind = "nonobject" ->
                  \* request_data.get raises AttributeError in process_mcp_request, again
                  \* in its except clause, and again in the except clause of mcp_endpoint
                  /\ req' = [req EXCEPT ![r] = [rec EXCEPT !.pc = "done",
                                                           !.process_called = TRUE,
                                                           !.raised = "get"]]
                  /\ fault' = [fault EXCEPT ![r] = TRUE]
                  /\ UNCHANGED <<resp, sm_jira_client, sm_confluence_client>>
             [] OTHER ->
                  /\ ProcessMcpRequest(r, rec, ctor)
                  /\ UNCHANGED fault
    /\ UNCHANGED <<jira_client, confluence_client, seen>>
    /\ NoTransportCall
    /\ UNCHANGED lifeVars

\* The awaited dispatcher handler reads the module's clients at some point
\* of its run.
HandlerRead(r) ==
    /\ req[r].pc = "in_handler"
    /\ req[r].invoked \in {"handle_call_tool", "handle_list_resources"}
    /\ seen' = [seen EXCEPT ![r] = <<sm_jira_client, sm_confluence_client>>]
    /\ UNCHANGED <<jira_client, confluence_client, sm_jira_client, sm_confluence_client,
                   req, resp, fault>>
    /\ NoTransportCall
    /\ UNCHANGED lifeVars

\* The awaited handler returns: the result envelope is built, then the finally
\* clause runs (tools/call, resources/list).
HandlerReturn(r) ==
    /\ req[r].pc = "in_handler"
    /\ LET rec == req[r] IN
       CASE rec.invoked = "handle_list_tools" ->
              /\ Answer(r, rec, ResultEnvelope(rec.body.id, "tools"))
              /\ UNCHANGED <<sm_jira_client, sm_confluence_client>>
         [] rec.invoked = "handle_call_tool" ->
              /\ Answer(r, rec, ResultEnvelope(rec.body.id, "content"))
              /\ Restore(rec)
         [] rec.invoked = "handle_list_resources" ->
              /\ Answer(r, rec, ResultEnvelope(rec.body.id, "resources"))
              /\ Restore(rec)
    /\ UNCHANGED <<jira_client, confluence_client, fault, seen>>
    /\ NoTransportCall
    /\ UNCHANGED lifeVars

\* The awaited handler raises: the finally clause runs (tools/call,
\* resources/list), then the branch's `except Exception` answers.
HandlerRaise(r) ==
    /\ req[r].pc = "in_handler"
    /\ LET rec == [req[r] EXCEPT !.raised = "handler"] IN
       CASE rec.invoked = "handle_list_tools" ->
              /\ Answer(r, rec, ErrorEnvelope(rec.body.id, InternalErrorCode,
                                              "Internal error", "Failed to get tools: str(e)"))
              /\ UNCHANGED <<sm_jira_client, sm_confluence_client>>
         [] rec.invoked = "handle_call_tool" ->
              /\ Answer(r, rec, ErrorEnvelope(rec.body.id, InternalErrorCode,
                                              "Internal error", "Tool execution failed: str(e)"))
              /\ Restore(rec)
         [] rec.invoked = "handle_list_resources" ->
              /\ Answer(r, rec, ErrorEnvelope(rec.body.id, InternalErrorCode,
                                              "Internal error", "Failed to get resources: str(e)"))
              /\ Restore(rec)
    /\ UNCHANGED <<jira_client, confluence_client, fault, seen>>
    /\ NoTransportCall
    /\ UNCHANGED lifeVars

----------------------------------------------------------------------------
(* SSE transport *)

\* A message dict; n numbers the broadcast messages
Message(method, n, code, message) ==
    [jsonrpc |-> "2.0", method |-> method, n |-> n, code |-> code, message |-> message]

Broadcast(n) == Message("notifications/message", n, 0, "")
InitMessage == Message("notifications/initialized", 0, 0, "")
Heartbeat == Message("notifications/heartbeat", 0, 0, "")
ErrorMessage(message) == Message("", 0, InternalErrorCode, message)

\* json.dumps(message): the text of the message
Dumps(message) == [json |-> message]

\* f"data: {text}\n\n"
Frame(text) == [data |-> text]

IdleConn ==
    [pc |-> "idle", headers |-> NoHeaders,
     jira_token |-> None, confluence_token |-> None,
     temp_jira_config |-> NoConfig, temp_confluence_config |-> NoConfig, beats |-> 0]

\* SSETransport.add_client: the new queue is the one of connection c
AddClient(c) ==
    /\ connected_clients' = connected_clients \cup {c}
    /\ queue' = [queue EXCEPT ![c] = <<>>]

\* remove_client is called and leaves the queue in the set
RemoveClientKeeps(c) ==
    /\ connected_clients' = connected_clients
    /\ removals' = [removals EXCEPT ![c] = @ + 1]
    /\ UNCHANGED remove_raised

\* set.remove in place of set.discard: KeyError for a queue that is not in the set
RemoveClientStrict(c) ==
    /\ connected_clients' = connected_clients \ {c}
    /\ removals' = [removals EXCEPT ![c] = @ + 1]
    /\ remove_raised' = (remove_raised \/ c \notin connected_clients)

\* SSETransport.remove_client, as called by the finally clause of event_stream
RemoveClient(c) ==
    /\ connected_clients' = connected_clients \ {c}
    /\ removals' = [removals EXCEPT ![c] = @ + 1]
    /\ UNCHANGED remove_raised      \* set.discard raises for no argument

\* sse_transport.remove_client(client_queue) called with any queue: one that
\* is registered, one that was removed, one that was never registered
RemoveClientCall(c) ==
    /\ removals[c] < MaxRemovals
    /\ RemoveClient(c)
    /\ UNCHANGED <<queue, conn, frames, enqueued, sent, logged>>
    /\ UNCHANGED rpcVars
    /\ UNCHANGED lifeVars

Emit(c, message) == frames' = [frames EXCEPT ![c] = Append(@, Frame(Dumps(message)))]

\* sse_endpoint: resolve the tokens, build the temporary configs, hand the
\* generator to EventSourceResponse
SseEndpoint(c, headers) ==
    /\ conn[c].pc = "idle"
    /\ LET tokens == SseResolveTokens(headers.authorization, headers.x_jira_token,
                                      headers.x_confluence_token)
       IN conn' = [conn EXCEPT ![c] =
            [@ EXCEPT !.pc = "accepted", !.headers = headers,
                      !.jira_token = tokens.jira,
                      !.confluence_token = tokens.confluence,
                      !.temp_jira_config =
                          IF Truthy(tokens.jira)
                          THEN Config(jira_client.config.url, tokens.jira,
                                      jira_client.config.ssl_verify)
                          ELSE NoConfig,
                      !.temp_confluence_config =
                          IF Truthy(tokens.confluence)
                          THEN Config(confluence_client.config.url, tokens.confluence,
                                      confluence_client.config.ssl_verify)
                          ELSE NoConfig]]
    /\ UNCHANGED <<connected_clients, queue, frames, enqueued, removals, sent, logged>>
    /\ UNCHANGED remove_raised
    /\ UNCHANGED rpcVars
    /\ UNCHANGED lifeVars

\* event_stream up to its first yield: register, build the handshake and
\* yield it; when building it raises, the outer except yields "Stream error"
StreamStart(c, built) ==
    /\ conn[c].pc = "accepted"
    /\ AddClient(c)
    /\ IF built
       THEN /\ Emit(c, InitMessage)
            /\ conn' = [conn EXCEPT ![c].pc = "yield"]
       ELSE /\ Emit(c, ErrorMessage("Stream error"))
            /\ conn' = [conn EXCEPT ![c].pc = "yield_error"]
    /\ UNCHANGED <<enqueued, removals, sent, logged>>
    /\ UNCHANGED remove_raised
    /\ UNCHANGED rpcVars
    /\ UNCHANGED lifeVars

\* The transport asks for the next frame: the loop reaches wait_for
Resume(c) ==
    /\ conn[c].pc = "yield"
    /\ conn' = [conn EXCEPT ![c].pc = "waiting"]
    /\ UNCHANGED <<connected_clients, queue, frames, enqueued, removals, sent, logged>>
    /\ UNCHANGED remove_raised
    /\ UNCHANGED rpcVars
    /\ UNCHANGED lifeVars

\* The newest message of the queue is taken, not the oldest
ForwardNewest(c) ==
    /\ conn[c].pc = "waiting"
    /\ queue[c] # <<>>
    /\ frames' = [frames EXCEPT ![c] = Append(@, Frame(queue[c][Len(queue[c])]))]
    /\ queue' = [queue EXCEPT ![c] = SubSeq(@, 1, Len(@) - 1)]
    /\ conn' = [conn EXCEPT ![c].pc = "yield"]
    /\ UNCHANGED <<connected_clients, enqueued, removals, sent, logged>>
    /\ UNCHANGED remove_raised
    /\ UNCHANGED rpcVars
    /\ UNCHANGED lifeVars

\* client_queue.get() delivers the head of the queue, which is yielded
Forward(c) ==
    /\ conn[c].pc = "waiting"
    /\ queue[c] # <<>>
    /\ frames' = [frames EXCEPT ![c] = Append(@, Frame(Head(queue[c])))]
    /\ queue' = [queue EXCEPT ![c] = Tail(@)]
    /\ conn' = [conn EXCEPT ![c].pc = "yield"]
    /\ UNCHANGED <<connected_clients, enqueued, removals, sent, logged>>
    /\ UNCHANGED remove_raised
    /\ UNCHANGED rpcVars
    /\ UNCHANGED lifeVars

\* client_queue.get() delivers, forwarding raises: the inner except yields
\* "Internal error"
ForwardError(c) ==
    /\ conn[c].pc = "waiting"
    /\ queue[c] # <<>>
    /\ queue' = [queue EXCEPT ![c] = Tail(@)]
    /\ Emit(c, ErrorMessage("Internal error"))
    /\ conn' = [conn EXCEPT ![c].pc = "yield_error"]
    /\ UNCHANGED <<connected_clients, enqueued, removals, sent, logged>>
    /\ UNCHANGED remove_raised
    /\ UNCHANGED rpcVars
    /\ UNCHANGED lifeVars

\* The timeout evicts the idle client after its heartbeat
TimeoutEvicts(c) ==
    /\ conn[c].pc = "waiting"
    /\ conn[c].beats < MaxBeats
    /\ Emit(c, Heartbeat)
    /\ conn' = [conn EXCEPT ![c].pc = "yield", ![c].beats = @ + 1]
    /\ connected_clients' = connected_clients \ {c}
    /\ UNCHANGED <<queue, enqueued, removals, sent, logged>>
    /\ UNCHANGED remove_raised
    /\ UNCHANGED rpcVars
    /\ UNCHANGED lifeVars

\* The timeout cancels a get() that had taken the head of the queue
TimeoutDiscards(c) ==
    /\ conn[c].pc = "waiting"
    /\ conn[c].beats < MaxBeats
    /\ Emit(c, Heartbeat)
    /\ conn' = [conn EXCEPT ![c].pc = "yield", ![c].beats = @ + 1]
    /\ queue' = [queue EXCEPT ![c] = IF @ = <<>> THEN @ ELSE Tail(@)]
    /\ UNCHANGED <<connected_clients, enqueued, removals, sent, logged>>
    /\ UNCHANGED remove_raised
    /\ UNCHANGED rpcVars
    /\ UNCHANGED lifeVars

\* wait_for raises asyncio.TimeoutError: the heartbeat is yielded.  The
\* timeout leaves the queue as it is.
Timeout(c) ==
    /\ conn[c].pc = "waiting"
    /\ conn[c].beats < MaxBeats
    /\ Emit(c, Heartbeat)
    /\ conn' = [conn EXCEPT ![c].pc = "yield", ![c].beats = @ + 1]
    /\ UNCHANGED <<connected_clients, queue, enqueued, removals, sent, logged>>
    /\ UNCHANGED remove_raised
    /\ UNCHANGED rpcVars
    /\ UNCHANGED lifeVars

\* wait_for raises another Exception: the inner except yields "Internal error"
WaitError(c) ==
    /\ conn[c].pc = "waiting"
    /\ Emit(c, ErrorMessage("Internal error"))
    /\ conn' = [conn EXCEPT ![c].pc = "yield_error"]
    /\ UNCHANGED <<connected_clients, queue, enqueued, removals, sent, logged>>
    /\ UNCHANGED remove_raised
    /\ UNCHANGED rpcVars
    /\ UNCHANGED lifeVars

\* No break after the error frame: the loop goes on waiting
ResumeAfterErrorContinues(c) ==
    /\ conn[c].pc = "yield_error"
    /\ conn' = [conn EXCEPT ![c].pc = "waiting"]
    /\ UNCHANGED <<connected_clients, removals, queue, frames, enqueued, sent, logged>>
    /\ UNCHANGED remove_raised
    /\ UNCHANGED rpcVars
    /\ UNCHANGED lifeVars

\* After an error frame the generator is resumed: break (inner except) or
\* fall through (outer except), then finally
ResumeAfterError(c) ==
    /\ conn[c].pc = "yield_error"
    /\ RemoveClient(c)
    /\ conn' = [conn EXCEPT ![c].pc = "done"]
    /\ UNCHANGED <<queue, frames, enqueued, sent, logged>>
    /\ UNCHANGED rpcVars
    /\ UNCHANGED lifeVars

\* The deregistration sits in the except clauses, not in a finally clause
CancelSkipsCleanup(c) ==
    /\ conn[c].pc \in {"yield", "yield_error", "waiting"}
    /\ conn' = [conn EXCEPT ![c].pc = "done"]
    /\ UNCHANGED <<connected_clients, removals, queue, frames, enqueued, sent, logged>>
    /\ UNCHANGED remove_raised
    /\ UNCHANGED rpcVars
    /\ UNCHANGED lifeVars

\* The transport closes the connection while the generator is suspended at a
\* yield (GeneratorExit) or in wait_for (CancelledError): neither is an
\* Exception, so only finally runs
Cancel(c) ==
    /\ conn[c].pc \in {"yield", "yield_error", "waiting"}
    /\ RemoveClient(c)
    /\ conn' = [conn EXCEPT ![c].pc = "done"]
    /\ UNCHANGED <<queue, frames, enqueued, sent, logged>>
    /\ UNCHANGED rpcVars
    /\ UNCHANGED lifeVars

\* client_queue.put(message_str) for the clients of `targets`
PutAll(targets, message_str) ==
    /\ queue' = [c \in Conns |-> IF c \in targets THEN Append(queue[c], message_str)
                                 ELSE queue[c]]
    /\ enqueued' = [c \in Conns |-> IF c \in targets THEN Append(enqueued[c], message_str)
                                    ELSE enqueued[c]]

\* The try encloses the loop: the first put that raises ends the broadcast
SendMessageStopsAtFailure(message, failing) ==
    /\ sent < MaxSent
    /\ failing \subseteq connected_clients
    /\ PutAll(IF failing = {} THEN connected_clients ELSE {}, Dumps(message))
    /\ sent' = sent + 1
    /\ logged' = failing
    /\ UNCHANGED <<connected_clients, conn, frames, removals>>
    /\ UNCHANGED remove_raised
    /\ UNCHANGED rpcVars
    /\ UNCHANGED lifeVars

\* SSETransport.send_message: one put per registered client; `failing` are
\* the clients whose put raises, which is logged
SendMessage(message, failing) ==
    /\ sent < MaxSent
    /\ failing \subseteq connected_clients
    /\ PutAll(connected_clients \ failing, Dumps(message))
    /\ sent' = sent + 1
    /\ logged' = failing
    /\ UNCHANGED <<connected_clients, conn, frames, removals>>
    /\ UNCHANGED remove_raised
    /\ UNCHANGED rpcVars
    /\ UNCHANGED lifeVars

----------------------------------------------------------------------------
(* lifespan and GET /health.  get_session and close belong to the default  *)
(* clients; whether a call of them raises, and with which str(e), is an    *)
(* input of the step that makes the call.                                  *)

Returns == [raised |-> FALSE, msg |-> ""]
Raises(msg) == [raised |-> TRUE, msg |-> msg]

\* A record of the logger
Log(level, text) == [level |-> level, text |-> text]

\* Per default client: a counter of calls, a flag
Both(j, c) == [jira |-> j, confluence |-> c]

IdleLife ==
    [pc |-> "startup",
     get_session_calls |-> Both(0, 0),     \* history: calls made by the startup block
     get_session_raised |-> Both(FALSE, FALSE),
     close_calls |-> Both(0, 0),           \* history: calls made by the shutdown block
     close_raised |-> Both(FALSE, FALSE),
     log |-> <<>>,
     propagated |-> FALSE]                 \* an exception left lifespan

\* One try block around both get_session calls: the first failure skips the second
StartupOneTry(jira, confluence) ==
    /\ life.pc = "startup"
    /\ life' = [life EXCEPT
         !.pc = "serving",
         !.get_session_calls = Both(1, IF jira.raised THEN 0 ELSE 1),
         !.get_session_raised = Both(jira.raised, ~jira.raised /\ confluence.raised),
         !.log = IF jira.raised
                 THEN <<Log("warning", "Failed to initialize Jira client: " \o jira.msg)>>
                 ELSE IF confluence.raised
                 THEN <<Log("warning", "Failed to initialize Confluence client: "
                                       \o confluence.msg)>>
                 ELSE <<>>]
    /\ UNCHANGED <<health, rpcVars, sseVars>>

\* lifespan up to its yield: one try block per default client
Startup(jira, confluence) ==
    /\ life.pc = "startup"
    /\ life' = [life EXCEPT
         !.pc = "serving",
         !.get_session_calls = Both(1, 1),
         !.get_session_raised = Both(jira.raised, confluence.raised),
         !.log = (IF jira.raised
                  THEN <<Log("warning", "Failed to initialize Jira client: " \o jira.msg)>>
                  ELSE <<>>)
                 \o (IF confluence.raised
                     THEN <<Log("warning", "Failed to initialize Confluence client: "
                                           \o confluence.msg)>>
                     ELSE <<>>)]
    /\ UNCHANGED <<health, rpcVars, sseVars>>

\* lifespan after its yield: one try block around both close calls, so that
\* confluence_client.close() is reached only when jira_client.close() returns
Shutdown(jira, confluence) ==
    /\ life.pc = "serving"
    /\ life' = [life EXCEPT
         !.pc = "stopped",
         !.close_calls = Both(1, IF jira.raised THEN 0 ELSE 1),
         !.close_raised = Both(jira.raised, ~jira.raised /\ confluence.raised),
         !.log = @ \o (IF jira.raised
                       THEN <<Log("error", "Error during shutdown: " \o jira.msg)>>
                       ELSE IF confluence.raised
                       THEN <<Log("error", "Error during shutdown: " \o confluence.msg)>>
                       ELSE <<>>)]
    /\ UNCHANGED <<health, rpcVars, sseVars>>

NoHealth ==
    [status |-> "none", services |-> Both("", ""), connected_clients |-> 0,
     raised |-> FALSE, probes |-> Both(Returns, Returns)]

\* f"error: {str(e)}"
ErrorStatus(probe) == IF probe.raised THEN "error: " \o probe.msg ELSE "ok"

\* The top-level status follows the services: "degraded" when one is not "ok"
PayloadDegraded(jira_status, confluence_status, n, probes) ==
    [status |-> IF jira_status = "ok" /\ confluence_status = "ok" THEN "ok" ELSE "degraded",
     services |-> Both(jira_status, confluence_status),
     connected_clients |-> n, raised |-> FALSE, probes |-> probes]

\* The response of /health; probes is the history of what get_session did
Payload(jira_status, confluence_status, n, probes) ==
    [status |-> "ok", services |-> Both(jira_status, confluence_status),
     connected_clients |-> n, raised |-> FALSE, probes |-> probes]

\* HTTPException(status_code=500) leaves health_check
Http500(probes) ==
    [status |-> "none", services |-> Both("", ""), connected_clients |-> 0,
     raised |-> TRUE, probes |-> probes]

\* One try block around both probes: a failing probe makes the handler raise
HealthCheckOneTry(jira, confluence) ==
    /\ health' = IF jira.raised \/ confluence.raised
                 THEN Http500(Both(jira, confluence))
                 ELSE Payload("ok", "ok", Cardinality(connected_clients),
                              Both(jira, confluence))
    /\ UNCHANGED <<life, rpcVars, sseVars>>

\* health_check: each probe in its own try block, then the payload
HealthCheck(jira, confluence) ==
    /\ health' = Payload(ErrorStatus(jira), ErrorStatus(confluence),
                         Cardinality(connected_clients), Both(jira, confluence))
    /\ UNCHANGED <<life, rpcVars, sseVars>>

----------------------------------------------------------------------------
(* Inputs *)

TokA == <<"a">>
TokJ == <<"j">>
TokC == <<"c">>
Empty == <<>>

\* Authorization header: absent, a bearer token, a bearer with an empty
\* token, another scheme, the scheme in lower case
AuthHeaders ==
    {None, Some(BearerPrefix \o TokA), Some(BearerPrefix),
     Some(<<"B", "a", "s", "i", "c", " ", "a">>),
     Some(<<"b", "e", "a", "r", "e", "r", " ", "a">>)}

\* A service header: absent, present and empty, present with a token
JiraHeaders == {None, Some(Empty), Some(TokJ)}
ConfluenceHeaders == {None, Some(Empty), Some(TokC)}

AllHeaders ==
    {Headers(a, j, c) : a \in AuthHeaders, j \in JiraHeaders, c \in ConfluenceHeaders}

Digit(r) == CASE r = 1 -> "1" [] r = 2 -> "2" [] r = 3 -> "3" [] OTHER -> "9"

\* The token of request r
TokenOf(r) == <<"t", Digit(r)>>

\* Headers of request r in the concurrent runs: none, or its own bearer token
OwnHeaders(r) ==
    {NoHeaders, Headers(Some(BearerPrefix \o TokenOf(r)), None, None)}

\* Headers of the connections in the streaming runs
StreamHeaders == {NoHeaders}

MethodNames == {"initialize", "tools/list", "tools/call", "resources/list", "nope"}

AllParams == {NoParams, BadParams} \cup {Params(n, a) : n \in BOOLEAN, a \in BOOLEAN}

Ids == {NoId, Id(1), Id(2)}

\* Every shape of body: the params vary for tools/call, the one method reading them
AllBodies ==
    {Unparseable, NonObject}
    \cup {Object(i, NoMethod, NoParams) : i \in Ids}
    \cup {Object(i, Method(m), NoParams) : i \in Ids, m \in MethodNames \ {"tools/call"}}
    \cup {Object(i, Method("tools/call"), q) : i \in Ids, q \in AllParams}

\* Bodies of request r in the concurrent runs
OwnBodies(r) ==
    {Object(Id(r), Method(m), Params(TRUE, TRUE)) :
        m \in {"initialize", "tools/call", "resources/list"}}

\* Bodies of the runs that vary the headers
AuthBodies ==
    {Unparseable, Object(Id(1), Method("tools/call"), Params(TRUE, TRUE)),
     Object(Id(1), Method("initialize"), NoParams)}

\* Bodies of the runs of the whole server: every method, an absent method,
\* a body that does not parse, a body that is no object
ServerBodies ==
    {Unparseable, NonObject, Object(Id(1), NoMethod, NoParams)}
    \cup {Object(Id(1), Method(m), Params(TRUE, TRUE)) : m \in MethodNames}

\* What a call of get_session or close does
CallOutcomes == {Returns, Raises("refused")}

CtorOutcomes == {"ok", "raise"}

----------------------------------------------------------------------------
(* Specifications *)

Init ==
    /\ jira_client = DefaultJiraClient
    /\ confluence_client = DefaultConfluenceClient
    /\ sm_jira_client = DefaultJiraClient
    /\ sm_confluence_client = DefaultConfluenceClient
    /\ req = [r \in Reqs |-> IdleReq]
    /\ resp = [r \in Reqs |-> <<>>]
    /\ fault = [r \in Reqs |-> FALSE]
    /\ seen = [r \in Reqs |-> <<NoClient, NoClient>>]
    /\ connected_clients = {}
    /\ queue = [c \in Conns |-> <<>>]
    /\ conn = [c \in Conns |-> IdleConn]
    /\ frames = [c \in Conns |-> <<>>]
    /\ enqueued = [c \in Conns |-> <<>>]
    /\ removals = [c \in Conns |-> 0]
    /\ sent = 0
    /\ logged = {}
    /\ remove_raised = FALSE
    /\ life = IdleLife
    /\ health = NoHealth

\* Concurrent /mcp requests, each with its own token
NextMcp ==
    \E r \in Reqs :
        \/ \E body \in OwnBodies(r), headers \in OwnHeaders(r), ctor \in CtorOutcomes :
               McpEndpoint(r, body, headers, ctor)
        \/ HandlerRead(r)
        \/ HandlerReturn(r)
        \/ HandlerRaise(r)

SpecMcp == Init /\ [][NextMcp]_vars

\* One /mcp request, every body and every combination of headers
NextRpc ==
    \/ \E body \in AllBodies, headers \in AllHeaders, ctor \in CtorOutcomes :
           McpEndpoint(1, body, headers, ctor)
    \/ HandlerRead(1)
    \/ HandlerReturn(1)
    \/ HandlerRaise(1)

SpecRpc == Init /\ [][NextRpc]_vars

\* SSE connections and broadcasts
NextSse ==
    \/ \E c \in Conns :
        \/ \E headers \in StreamHeaders : SseEndpoint(c, headers)
        \/ \E built \in BOOLEAN : StreamStart(c, built)
        \/ Resume(c)
        \/ Forward(c)
        \/ ForwardError(c)
        \/ Timeout(c)
        \/ WaitError(c)
        \/ ResumeAfterError(c)
        \/ Cancel(c)
    \/ \E failing \in SUBSET Conns : SendMessage(Broadcast(sent + 1), failing)

SpecSse == Init /\ [][NextSse]_vars

\* One SSE connection and the broadcasts it receives
NextStream ==
    \/ \E headers \in StreamHeaders : SseEndpoint(1, headers)
    \/ \E built \in BOOLEAN : StreamStart(1, built)
    \/ Resume(1)
    \/ Forward(1)
    \/ ForwardError(1)
    \/ Timeout(1)
    \/ WaitError(1)
    \/ ResumeAfterError(1)
    \/ Cancel(1)
    \/ \E failing \in SUBSET {1} : SendMessage(Broadcast(sent + 1), failing)

SpecStream == Init /\ [][NextStream]_vars

\* The same connection with a client that keeps reading (the transport asks
\* for the next frame after each yield) and an event loop that completes
\* client_queue.get() when the queue holds a message
SpecStreamFair ==
    /\ Init
    /\ [][NextStream]_vars
    /\ WF_vars(Resume(1))
    /\ SF_vars(Forward(1))

\* Startup, the health endpoint next to connecting and disconnecting
\* streams, shutdown.  Requests arrive while the application serves.
NextLife ==
    \/ \E jira \in CallOutcomes, confluence \in CallOutcomes : Startup(jira, confluence)
    \/ \E jira \in CallOutcomes, confluence \in CallOutcomes :
           life.pc = "serving" /\ HealthCheck(jira, confluence)
    \/ \E jira \in CallOutcomes, confluence \in CallOutcomes : Shutdown(jira, confluence)
    \/ \E c \in Conns :
        \/ \E headers \in StreamHeaders : life.pc = "serving" /\ SseEndpoint(c, headers)
        \/ \E built \in BOOLEAN : StreamStart(c, built)
        \/ Resume(c)
        \/ WaitError(c)
        \/ ResumeAfterError(c)
        \/ Cancel(c)

SpecLife == Init /\ [][NextLife]_vars

\* The session manager called on its own: queues are registered by streams
\* and remove_client is called with any queue, at any time
NextTransport ==
    \E c \in Conns :
        \/ \E headers \in StreamHeaders : SseEndpoint(c, headers)
        \/ \E built \in BOOLEAN : StreamStart(c, built)
        \/ ResumeAfterError(c)
        \/ Cancel(c)
        \/ RemoveClientCall(c)

SpecTransport == Init /\ [][NextTransport]_vars

\* The whole server: one /mcp request next to one stream and the broadcasts
NextServer ==
    \/ \E body \in ServerBodies, headers \in OwnHeaders(1), ctor \in CtorOutcomes :
           McpEndpoint(1, body, headers, ctor)
    \/ HandlerRead(1)
    \/ HandlerReturn(1)
    \/ HandlerRaise(1)
    \/ NextStream

SpecServer == Init /\ [][NextServer]_vars

\* The credential resolution of both endpoints, every combination of headers
NextAuth ==
    \/ \E body \in AuthBodies, headers \in AllHeaders, ctor \in CtorOutcomes :
           McpEndpoint(1, body, headers, ctor)
    \/ HandlerRead(1)
    \/ HandlerReturn(1)
    \/ HandlerRaise(1)
    \/ \E headers \in AllHeaders : SseEndpoint(1, headers)

SpecAuth == Init /\ [][NextAuth]_vars

----------------------------------------------------------------------------
(* Properties *)

InFlight(r) == req[r].pc = "in_handler"
Done(r) == req[r].pc = "done"
HasRead(r) == seen[r] # <<NoClient, NoClient>>

\* C1: whatever the handler invocation of a request reads from the
\* dispatcher module is the client pair resolved for that request: its own
\* temporary client for a service it has a token for, the default client
\* otherwise, never the temporary client of another request.
C1_ReadsOwnClients ==
    \A r \in Reqs :
        HasRead(r) =>
            /\ seen[r] = <<req[r].active_jira_client, req[r].active_confluence_client>>
            /\ seen[r][1].owner \in {0, r}
            /\ seen[r][2].owner \in {0, r}

\* C2: when no tools/call or resources/list request is in flight, the
\* dispatcher module holds the process-wide default clients.
C2_DefaultsWhenQuiescent ==
    (\A r \in Reqs : ~InFlight(r)) =>
        /\ sm_jira_client = jira_client
        /\ sm_confluence_client = confluence_client

\* C3: an envelope that carries an id is answered by exactly one envelope,
\* which carries the same id, in every method branch and for the success
\* and the error outcome; before the answer nothing has been sent.
C3_OneEnvelopeSameId ==
    \A r \in Reqs :
        (req[r].body.kind = "object" /\ req[r].body.id.some) =>
            /\ Done(r) => (Len(resp[r]) = 1 /\ resp[r][1].id = req[r].body.id)
            /\ ~Done(r) => resp[r] = <<>>
            /\ ~fault[r]

\* C3 witness: a tools/call with the id 2 whose handler was invoked and
\* which is answered by one error envelope with the id 2.
C3_Witness ==
    \E r \in Reqs :
        /\ Done(r) /\ req[r].body.id = Id(2)
        /\ req[r].body.method = Method("tools/call")
        /\ req[r].invoked = "handle_call_tool"
        /\ Len(resp[r]) = 1 /\ resp[r][1].kind = "error" /\ resp[r][1].id = Id(2)

\* C4: every POST /mcp, whatever its body, is answered with one envelope
\* holding a result or an error, and no exception leaves mcp_endpoint.
C4_AlwaysEnvelope ==
    \A r \in Reqs :
        Done(r) =>
            /\ ~fault[r]
            /\ Len(resp[r]) = 1
            /\ resp[r][1].kind \in {"result", "error"}

Registered(c) == conn[c].pc \notin {"idle", "accepted"}
Exited(c) == conn[c].pc = "done"

\* C5: a connection that registered is deregistered exactly once, when its
\* streaming loop exits, on every exit path: none before the exit, one after.
C5_OneDeregistration ==
    \A c \in Conns :
        /\ Exited(c) => removals[c] = 1
        /\ ~Exited(c) => removals[c] = 0

IsError(frame) == frame.data.json.code = InternalErrorCode
IsData(frame) == frame.data.json.method = "notifications/message"
IsHeartbeat(frame) == frame.data.json.method = "notifications/heartbeat"
IsInit(frame) == frame.data.json.method = "notifications/initialized"

\* C5 witness: one connection closed by the transport during a wait after
\* its handshake, another one ended by its error path, both deregistered.
C5_Witness ==
    \E c, d \in Conns :
        /\ Exited(c) /\ removals[c] = 1
        /\ Len(frames[c]) = 1 /\ IsInit(frames[c][1])
        /\ Exited(d) /\ removals[d] = 1
        /\ Len(frames[d]) > 1 /\ IsError(frames[d][Len(frames[d])])

\* C6: a send_message call appends the serialized message once to the queue
\* of every registered client whose put did not raise and changes no other
\* queue; it completes whichever puts raise.
C6_BroadcastIsolated ==
    [][sent' # sent =>
         /\ sent' = sent + 1
         /\ \A c \in Conns :
              queue'[c] = IF c \in connected_clients \ logged'
                          THEN Append(queue[c], Dumps(Broadcast(sent')))
                          ELSE queue[c]
         /\ connected_clients' = connected_clients]_vars

\* C6 witness: one registered client's put raised, another registered client
\* received the message, and a client that had not registered received nothing.
C6_Witness ==
    /\ sent = 1
    /\ \E c, d \in Conns :
         /\ c \in logged /\ c \in connected_clients /\ queue[c] = <<>>
         /\ d \in connected_clients /\ queue[d] = <<Dumps(Broadcast(1))>>

\* The texts of the forwarded frames of a connection, in order of emission
Forwarded(c) ==
    LET data == SelectSeq(frames[c], IsData)
    IN  [i \in 1 .. Len(data) |-> data[i].data]

\* C7: the data frames of a connection are the texts put on its queue, in
\* the order of the puts, each at most once; those not yet forwarded wait in
\* the queue in that order.
C7_Fifo ==
    \A c \in Conns :
        LET out == Forwarded(c) IN
        /\ Len(out) <= Len(enqueued[c])
        /\ out = SubSeq(enqueued[c], 1, Len(out))
        /\ \/ queue[c] = SubSeq(enqueued[c], Len(out) + 1, Len(enqueued[c]))
           \/ \E i \in 1 .. Len(frames[c]) : IsError(frames[c][i])

\* C7 witness: two messages forwarded in the order of their puts with a
\* heartbeat between them.
C7_Witness ==
    \E c \in Conns :
        \E i, j, k \in 1 .. Len(frames[c]) :
            /\ i < j /\ j < k
            /\ frames[c][i] = Frame(Dumps(Broadcast(1)))
            /\ IsHeartbeat(frames[c][j])
            /\ frames[c][k] = Frame(Dumps(Broadcast(2)))

\* C8: the first frame of every connection is the handshake, which is
\* emitted once.
C8_HandshakeFirst ==
    \A c \in Conns :
        frames[c] # <<>> =>
            /\ IsInit(frames[c][1])
            /\ \A i \in 2 .. Len(frames[c]) : ~IsInit(frames[c][i])

Tokens == {TokA, Empty}

\* The token of an Authorization header of the form "Bearer <token>"
BearerOf(authorization) ==
    IF \E t \in Tokens : authorization = Some(BearerPrefix \o t)
    THEN Some(CHOOSE t \in Tokens : authorization = Some(BearerPrefix \o t))
    ELSE None

\* The headers were read: the body of a /mcp request parsed
Resolved(r) == req[r].pc # "idle" /\ req[r].body.kind # "unparseable"
Accepted(c) == conn[c].pc # "idle"

\* C9: with a bearer header and neither service header, both resolved tokens
\* are the bearer token, on /mcp and on /sse.
C9_BearerForBoth ==
    /\ \A r \in Reqs :
         LET h == req[r].headers IN
         (Resolved(r) /\ BearerOf(h.authorization).some
            /\ h.x_jira_token = None /\ h.x_confluence_token = None) =>
             /\ req[r].jira_token = BearerOf(h.authorization)
             /\ req[r].confluence_token = BearerOf(h.authorization)
    /\ \A c \in Conns :
         LET h == conn[c].headers IN
         (Accepted(c) /\ BearerOf(h.authorization).some
            /\ h.x_jira_token = None /\ h.x_confluence_token = None) =>
             /\ conn[c].jira_token = BearerOf(h.authorization)
             /\ conn[c].confluence_token = BearerOf(h.authorization)

\* C9 witness: a /mcp request and an SSE connection, each with only the
\* header "Bearer a", both holding the token a for both services.
C9_Witness ==
    /\ \E r \in Reqs :
         /\ Resolved(r)
         /\ req[r].headers = Headers(Some(BearerPrefix \o TokA), None, None)
         /\ req[r].jira_token = Some(TokA) /\ req[r].confluence_token = Some(TokA)
         /\ req[r].temp_jira_client.config.personal_token = Some(TokA)
    /\ \E c \in Conns :
         /\ Accepted(c)
         /\ conn[c].headers = Headers(Some(BearerPrefix \o TokA), None, None)
         /\ conn[c].temp_jira_config.personal_token = Some(TokA)
         /\ conn[c].temp_confluence_config.personal_token = Some(TokA)

\* A service header that is `present` decides its service's token, and the other
\* service, having no header of its own, gets the bearer token or none.
HeaderWins(present(_), h, jira, confluence) ==
    /\ present(h.x_jira_token) =>
         /\ jira = h.x_jira_token
         /\ h.x_confluence_token = None => confluence = BearerOf(h.authorization)
    /\ present(h.x_confluence_token) =>
         /\ confluence = h.x_confluence_token
         /\ h.x_jira_token = None => jira = BearerOf(h.authorization)

IsPresent(x) == x.some

\* C10 as stated: a service header that is present decides the token of its
\* service whatever the bearer token, and leaves the other service to the
\* bearer token or none.
C10_PresentHeaderWins ==
    /\ \A r \in Reqs :
         Resolved(r) =>
             HeaderWins(IsPresent, req[r].headers, req[r].jira_token, req[r].confluence_token)
    /\ \A c \in Conns :
         Accepted(c) =>
             HeaderWins(IsPresent, conn[c].headers, conn[c].jira_token,
                        conn[c].confluence_token)

\* C10 amended: a service header that is present with a non-empty value
\* decides the token of its service whatever the bearer token, and leaves
\* the other service to the bearer token or none.
C10_NonEmptyHeaderWins ==
    /\ \A r \in Reqs :
         Resolved(r) =>
             HeaderWins(Truthy, req[r].headers, req[r].jira_token, req[r].confluence_token)
    /\ \A c \in Conns :
         Accepted(c) =>
             HeaderWins(Truthy, conn[c].headers, conn[c].jira_token,
                        conn[c].confluence_token)

\* C10 witness: X-Jira-Token j beside "Bearer a" on /mcp gives j to Jira and
\* a to Confluence; X-Confluence-Token c beside "Bearer a" on /sse gives c to
\* Confluence and a to Jira.
C10_Witness ==
    /\ \E r \in Reqs :
         /\ Resolved(r)
         /\ req[r].headers = Headers(Some(BearerPrefix \o TokA), Some(TokJ), None)
         /\ req[r].jira_token = Some(TokJ) /\ req[r].confluence_token = Some(TokA)
    /\ \E c \in Conns :
         /\ Accepted(c)
         /\ conn[c].headers = Headers(Some(BearerPrefix \o TokA), None, Some(TokC))
         /\ conn[c].confluence_token = Some(TokC) /\ conn[c].jira_token = Some(TokA)

\* The request names no credential for a service: no bearer header and no
\* header of the service
NoCredential(authorization, service_header) ==
    BearerOf(authorization) = None /\ service_header = None

\* process_mcp_request went past the construction of the temporary clients
Selected(r) == req[r].process_called /\ req[r].raised \notin {"ctor", "get"}

\* C11: for a service a request names no credential for (no bearer header,
\* no header of the service), no temporary client or config is created, the
\* client selected is the default one, the handler runs with the default one
\* installed, and the default clients are the ones constructed at start.
C11_NoCredentialDefault ==
    /\ jira_client = DefaultJiraClient
    /\ confluence_client = DefaultConfluenceClient
    /\ \A r \in Reqs :
         Resolved(r) =>
           LET h == req[r].headers IN
           /\ NoCredential(h.authorization, h.x_jira_token) =>
                /\ req[r].temp_jira_client = NoClient
                /\ Selected(r) => req[r].active_jira_client = jira_client
                /\ InFlight(r) => sm_jira_client = jira_client
           /\ NoCredential(h.authorization, h.x_confluence_token) =>
                /\ req[r].temp_confluence_client = NoClient
                /\ Selected(r) => req[r].active_confluence_client = confluence_client
                /\ InFlight(r) => sm_confluence_client = confluence_client
    /\ \A c \in Conns :
         Accepted(c) =>
           LET h == conn[c].headers IN
           /\ NoCredential(h.authorization, h.x_jira_token) =>
                conn[c].temp_jira_config = NoConfig
           /\ NoCredential(h.authorization, h.x_confluence_token) =>
                conn[c].temp_confluence_config = NoConfig

\* A tools/call request with a Confluence header alone is in its handler: it
\* has a temporary Confluence client and the default Jira client; a stream
\* with a Jira header alone has a Jira config and no Confluence config.
C11_Witness ==
    /\ InFlight(1)
    /\ req[1].headers = Headers(None, None, Some(TokC))
    /\ req[1].temp_confluence_client # NoClient
    /\ req[1].temp_jira_client = NoClient
    /\ req[1].active_jira_client = DefaultJiraClient
    /\ sm_jira_client = DefaultJiraClient
    /\ sm_confluence_client = req[1].temp_confluence_client
    /\ conn[1].headers = Headers(None, Some(TokJ), None)
    /\ conn[1].temp_jira_config # NoConfig
    /\ conn[1].temp_confluence_config = NoConfig

\* The default config with the credential replaced by the token
WithToken(config, token) == [config EXCEPT !.personal_token = token]

\* C12: a config resolved for a request or a stream is the default config
\* of its service (same url, same ssl_verify) with the resolved token as its
\* credential, and resolving leaves the default clients and their configs as
\* they were constructed.
C12_ConfigFromDefault ==
    /\ jira_client = DefaultJiraClient
    /\ confluence_client = DefaultConfluenceClient
    /\ \A r \in Reqs :
         /\ req[r].temp_jira_client # NoClient =>
              /\ req[r].temp_jira_client.svc = "jira"
              /\ req[r].temp_jira_client.config =
                   WithToken(DefaultJiraClient.config, req[r].jira_token)
         /\ req[r].temp_confluence_client # NoClient =>
              /\ req[r].temp_confluence_client.svc = "confluence"
              /\ req[r].temp_confluence_client.config =
                   WithToken(DefaultConfluenceClient.config, req[r].confluence_token)
    /\ \A c \in Conns :
         /\ conn[c].temp_jira_config # NoConfig =>
              conn[c].temp_jira_config =
                WithToken(DefaultJiraClient.config, conn[c].jira_token)
         /\ conn[c].temp_confluence_config # NoConfig =>
              conn[c].temp_confluence_config =
                WithToken(DefaultConfluenceClient.config, conn[c].confluence_token)

\* A request with both service headers has two temporary clients whose
\* configs carry the two tokens, a stream with a bearer header has two
\* configs carrying the bearer token, and the default configs hold no token.
C12_Witness ==
    /\ req[1].temp_jira_client # NoClient
    /\ req[1].temp_jira_client.config = Config("https://jira", Some(TokJ), TRUE)
    /\ req[1].temp_confluence_client # NoClient
    /\ req[1].temp_confluence_client.config = Config("https://wiki", Some(TokC), FALSE)
    /\ conn[1].temp_jira_config = Config("https://jira", Some(TokA), TRUE)
    /\ conn[1].temp_confluence_config = Config("https://wiki", Some(TokA), FALSE)
    /\ jira_client.config.personal_token = None
    /\ confluence_client.config.personal_token = None

\* The envelope is an error envelope of code -32603 for the id, with a data field
IsInternalError(envelope, id) ==
    /\ envelope.kind = "error"
    /\ envelope.code = InternalErrorCode
    /\ envelope.id = id
    /\ envelope.data # NoData

\* C13: when the handler of tools/call or resources/list raises, or the
\* construction of the temporary clients raises, the request is answered with
\* one error envelope of code -32603 that carries the request id and a data
\* field, and once it is answered the dispatcher module holds the client pair
\* it held before the call (one request at a time: the default pair).
C13_RaiseAnswered ==
    \A r \in Reqs :
        (/\ Done(r)
         /\ \/ req[r].raised = "ctor"
            \/ /\ req[r].raised = "handler"
               /\ req[r].invoked \in {"handle_call_tool", "handle_list_resources"})
        => /\ Len(resp[r]) = 1
           /\ IsInternalError(resp[r][1], req[r].body.id)
           /\ ~fault[r]
           /\ sm_jira_client = jira_client
           /\ sm_confluence_client = confluence_client
           /\ req[r].raised = "handler" =>
                /\ sm_jira_client = req[r].original_jira
                /\ sm_confluence_client = req[r].original_confluence

\* A tools/call request with a bearer token whose handler raised while the
\* temporary clients were installed (it read them), answered with the error
\* envelope for its id.
C13_Witness ==
    /\ Done(1)
    /\ req[1].raised = "handler"
    /\ req[1].invoked = "handle_call_tool"
    /\ req[1].temp_jira_client # NoClient
    /\ seen[1] = <<req[1].temp_jira_client, req[1].temp_confluence_client>>
    /\ req[1].body.id = Id(2)
    /\ resp[1] = <<ErrorEnvelope(Id(2), InternalErrorCode, "Internal error",
                                 "Tool execution failed: str(e)")>>
    /\ sm_jira_client = DefaultJiraClient

KnownMethods == {"initialize", "tools/list", "tools/call", "resources/list"}

\* The body is an object whose method is absent or none of the four
UnknownMethod(r) ==
    /\ req[r].body.kind = "object"
    /\ ~req[r].body.method.some \/ req[r].body.method.v \notin KnownMethods

C15_ParseFailure ==
    \A r \in Reqs :
        (Done(r) /\ req[r].body.kind = "unparseable")
        => /\ Len(resp[r]) = 1
           /\ IsInternalError(resp[r][1], NoId)
           /\ ~fault[r]
           /\ ~req[r].process_called
           /\ req[r].invoked = "none"
           /\ req[r].temp_jira_client = NoClient
           /\ req[r].temp_confluence_client = NoClient
           /\ req[r].active_jira_client = NoClient
           /\ req[r].active_confluence_client = NoClient

\* An unparseable body sent with both service headers, answered with the
\* null-id envelope.
C15_Witness ==
    /\ Done(1)
    /\ req[1].body = Unparseable
    /\ req[1].headers = Headers(None, Some(TokJ), Some(TokC))
    /\ req[1].raised = "parse"
    /\ resp[1] = <<ErrorEnvelope(NoId, InternalErrorCode, "Internal error", "str(e)")>>

\* The log holds a record of the level whose text is the prefix followed by msg
Logged(level, prefix, msg) ==
    \E i \in 1 .. Len(life.log) : life.log[i] = Log(level, prefix \o msg)

\* C16: once the shutdown block has run, close has been called exactly once
\* on each default client, whether or not a close raised, and no exception
\* left lifespan.
C16_BothClosedOnce ==
    life.pc = "stopped" =>
        /\ life.close_calls = Both(1, 1)
        /\ ~life.propagated

\* C17: once the startup block has run, get_session has been attempted once
\* on each default client whatever the other attempt did, every attempt that
\* raised has its warning in the log, and the application serves.
C17_StartupContinues ==
    life.pc # "startup" =>
        /\ life.get_session_calls = Both(1, 1)
        /\ life.get_session_raised.jira =>
             Logged("warning", "Failed to initialize Jira client: ", "refused")
        /\ life.get_session_raised.confluence =>
             Logged("warning", "Failed to initialize Confluence client: ", "refused")
        /\ ~life.propagated
        /\ life.pc \in {"serving", "stopped"}

\* The Jira attempt raised at startup, the Confluence attempt was made and
\* returned, and the application serves: a stream is open.
C17_Witness ==
    /\ life.pc = "serving"
    /\ life.get_session_raised = Both(TRUE, FALSE)
    /\ life.get_session_calls.confluence = 1
    /\ life.log = <<Log("warning", "Failed to initialize Jira client: refused")>>
    /\ connected_clients # {}

\* C18: /health returns a payload and never raises; each service's status is
\* "ok" when its own probe returned and "error: " followed by the message
\* when its own probe raised, whatever the other probe did.
C18_HealthPerService ==
    health # NoHealth =>
        /\ ~health.raised
        /\ health.status = "ok"
        /\ health.services.jira =
             (IF health.probes.jira.raised
              THEN "error: " \o health.probes.jira.msg ELSE "ok")
        /\ health.services.confluence =
             (IF health.probes.confluence.raised
              THEN "error: " \o health.probes.confluence.msg ELSE "ok")

\* A health check whose Jira probe raised and whose Confluence probe returned
C18_Witness ==
    /\ health.probes = Both(Raises("refused"), Returns)
    /\ health.services = Both("error: refused", "ok")
    /\ ~health.raised

\* The streams that registered and whose generator has not exited
OpenStreams == {c \in Conns : Registered(c) /\ ~Exited(c)}

\* C19: in every state the active-connection set holds exactly the queues
\* of the streams that registered and have not exited, and the count a
\* health check reports is the number of those streams at the time it runs.
C19_ActiveSetIsOpenStreams ==
    /\ [](connected_clients = OpenStreams)
    /\ [][health' # health =>
            health'.connected_clients = Cardinality(OpenStreams)]_vars

\* The latest health check reported one connected client; one stream is open
\* and waiting, another has exited after an error frame and was removed.
C19_Witness ==
    /\ health.connected_clients = 1
    /\ Cardinality(OpenStreams) = 1
    /\ \E c \in Conns : Exited(c) /\ removals[c] = 1 /\ IsError(frames[c][Len(frames[c])])
    /\ \E c \in Conns : conn[c].pc = "waiting" /\ c \in connected_clients

Swapping == {"handle_call_tool", "handle_list_resources"}

\* C20: a tools/call or resources/list request saves the client pair the
\* dispatcher module holds when the call starts, and the step in which its
\* handler returns or raises leaves the module holding that pair; with no
\* other request in between, the module ends with the pair it had before.
C20_PairRestored ==
    [][\A r \in Reqs :
         /\ (req[r].pc = "idle" /\ req'[r].pc = "in_handler"
                 /\ req'[r].invoked \in Swapping)
            => /\ req'[r].original_jira = sm_jira_client
               /\ req'[r].original_confluence = sm_confluence_client
         /\ (req[r].pc = "in_handler" /\ req'[r].pc = "done"
                 /\ req[r].invoked \in Swapping)
            => /\ sm_jira_client' = req[r].original_jira
               /\ sm_confluence_client' = req[r].original_confluence]_vars

\* Request 1 ran alone with a bearer token (request 2 has not started): its
\* handler read the temporary clients and raised, and the module holds the
\* default pair it held before the call.
C20_Witness ==
    /\ Done(1)
    /\ req[2].pc = "idle"
    /\ req[1].invoked \in Swapping
    /\ req[1].raised = "handler"
    /\ req[1].temp_jira_client # NoClient
    /\ seen[1] = <<req[1].temp_jira_client, req[1].temp_confluence_client>>
    /\ req[1].original_jira = DefaultJiraClient
    /\ sm_jira_client = DefaultJiraClient
    /\ sm_confluence_client = DefaultConfluenceClient

\* The frame is the error frame of the loop's inner except clause
IsLoopError(frame) == IsError(frame) /\ frame.data.json.message = "Internal error"

\* The number of frames of connection c that satisfy the test
RECURSIVE CountFrames(_, _, _)
CountFrames(test(_), fs, n) ==
    IF n = 0 THEN 0
    ELSE CountFrames(test, fs, n - 1) + (IF test(fs[n]) THEN 1 ELSE 0)

\* C21: when the wait or the forwarding of the streaming loop raises (not
\* the timeout), the connection emits one error frame of code -32603 and
\* nothing after it: that frame is the only error frame and the last frame
\* of the connection, and the generator's next step is its exit.
C21_OneErrorThenEnd ==
    /\ [](\A c \in Conns :
            \A i \in 1 .. Len(frames[c]) :
                IsLoopError(frames[c][i])
                => /\ i = Len(frames[c])
                   /\ CountFrames(IsError, frames[c], Len(frames[c])) = 1
                   /\ conn[c].pc \in {"yield_error", "done"})
    /\ [][\A c \in Conns :
            conn[c].pc = "yield_error" /\ conn'[c] # conn[c]
            => conn'[c].pc = "done" /\ frames'[c] = frames[c]
               /\ c \notin connected_clients']_vars

\* The loop forwarded a broadcast, sent a heartbeat, then its wait raised:
\* the error frame is last, the generator has exited, and a broadcast that
\* was still queued was not forwarded after it.
C21_Witness ==
    /\ Exited(1)
    /\ Len(frames[1]) = 4
    /\ IsInit(frames[1][1])
    /\ \E i \in 2 .. 3 : IsData(frames[1][i])
    /\ \E i \in 2 .. 3 : IsHeartbeat(frames[1][i])
    /\ IsLoopError(frames[1][4])
    /\ queue[1] # <<>>

\* C22: every expiry of the wait emits exactly one heartbeat frame and the
\* loop goes on: the step adds the one frame, leaves the queue and the
\* active set alone and returns to the loop; the heartbeat frames of a
\* connection are as many as its timeouts, and a connection that timed out,
\* once or several times in a row, stays registered until it exits.
C22_HeartbeatKeepsClient ==
    /\ [](\A c \in Conns :
            /\ CountFrames(IsHeartbeat, frames[c], Len(frames[c])) = conn[c].beats
            /\ (conn[c].beats > 0 /\ ~Exited(c)) => c \in connected_clients)
    /\ [][\A c \in Conns :
            conn'[c].beats # conn[c].beats
            => /\ conn'[c].beats = conn[c].beats + 1
               /\ frames'[c] = Append(frames[c], Frame(Dumps(Heartbeat)))
               /\ conn'[c].pc = "yield"
               /\ c \in connected_clients'
               /\ connected_clients' = connected_clients
               /\ queue' = queue]_vars

\* Two timeouts in a row, then a broadcast sent after them was forwarded:
\* the client is still registered and waits again.
C22_Witness ==
    /\ Len(frames[1]) = 4
    /\ IsInit(frames[1][1])
    /\ IsHeartbeat(frames[1][2])
    /\ IsHeartbeat(frames[1][3])
    /\ IsData(frames[1][4])
    /\ conn[1].beats = 2
    /\ conn[1].pc = "waiting"
    /\ 1 \in connected_clients

\* C23: remove_client never raises; a call for a queue that is not in the
\* active set (removed before, or never registered) leaves the set as it
\* is; after a call the queue is not in the set, so a second call changes
\* nothing more; the membership of every other queue is untouched.
C23_RemoveIdempotent ==
    /\ [](~remove_raised)
    /\ [][\A c \in Conns :
            removals'[c] # removals[c]
            => /\ c \notin connected_clients'
               /\ c \notin connected_clients => connected_clients' = connected_clients
               /\ \A d \in Conns \ {c} :
                    d \in connected_clients' <=> d \in connected_clients]_vars

\* The queue of stream 1 was removed when the stream exited and remove_client
\* was called for it again; remove_client was called for the queue of
\* connection 2 before it registered; stream 2 is registered now.
C23_Witness ==
    /\ Exited(1)
    /\ removals[1] = 2
    /\ removals[2] = 1
    /\ connected_clients = {2}
    /\ ~remove_raised

\* The body is an object whose method is initialize, tools/list or unknown
SideEffectFree(body) ==
    /\ body.kind = "object"
    /\ ~body.method.some \/ body.method.v \notin {"tools/call", "resources/list"}

\* C24: no step of a request whose method is initialize, tools/list or an
\* unknown method changes the dispatcher module's client pair, the default
\* clients, the active set or a queue, with or without tokens: they are the
\* same after the request as before it.
C24_NoSideEffects ==
    [][\A r \in Reqs :
         (req'[r] # req[r] /\ SideEffectFree(req'[r].body))
         => UNCHANGED <<sm_jira_client, sm_confluence_client, jira_client,
                        confluence_client, connected_clients, queue>>]_vars

\* A tools/list request with a bearer token (temporary clients were built)
\* whose handler returned while a stream is registered with a broadcast
\* queued: the module holds the default pair.
C24_Witness ==
    /\ Done(1)
    /\ req[1].body.method = Method("tools/list")
    /\ req[1].temp_jira_client # NoClient
    /\ resp[1] = <<ResultEnvelope(Id(1), "tools")>>
    /\ sm_jira_client = DefaultJiraClient
    /\ sm_confluence_client = DefaultConfluenceClient
    /\ connected_clients = {1}
    /\ queue[1] # <<>>

\* C27: a step of the /mcp path (any method, answered with a result, an
\* error, or not at all) leaves the active set, every queue, every stream
\* and its frames as they are: it registers, deregisters and enqueues nothing.
C27_RpcLeavesSse ==
    [][rpcVars' # rpcVars
       => UNCHANGED <<connected_clients, queue, enqueued, conn, frames, removals>>]_vars

\* A tools/call request was answered with an error while a stream stays
\* registered, waiting, with two broadcasts queued.
C27_Witness ==
    /\ Done(1)
    /\ req[1].raised = "handler"
    /\ req[1].invoked = "handle_call_tool"
    /\ connected_clients = {1}
    /\ conn[1].pc = "waiting"
    /\ Len(queue[1]) = 2

\* The body is a tools/call envelope whose params lack name or arguments
LacksNameOrArguments(body) ==
    /\ body.kind = "object"
    /\ body.method = Method("tools/call")
    /\ body.params.kind \in {"absent", "object"}
    /\ ~body.params.name \/ ~body.params.arguments

\* C25: a tools/call request whose params lack name or arguments (building
\* its temporary clients did not raise) never has handle_call_tool invoked
\* and is answered with an error envelope.
C25_CallNeedsNameAndArguments ==
    \A r \in Reqs :
        (req[r].pc # "idle" /\ LacksNameOrArguments(req[r].body)
            /\ req[r].raised # "ctor")
        => /\ req[r].invoked = "none"
           /\ Done(r) => (Len(resp[r]) = 1 /\ resp[r][1].kind = "error")

\* The i-th message put on the queue of connection c was emitted as its i-th
\* data frame
Emitted(c, i) == Len(Forwarded(c)) >= i /\ Forwarded(c)[i] = enqueued[c][i]

\* C26: with a client that keeps reading and a loop that is scheduled, every
\* message put on the queue of the registered connection is eventually
\* emitted as a data frame, unless the connection is closed or the loop takes
\* its error path first; a heartbeat timeout leaves the queue as it is.
C26_EventuallyEmitted ==
    /\ \A i \in 1 .. MaxSent :
         (Len(enqueued[1]) >= i)
            ~> (Emitted(1, i) \/ Exited(1) \/ conn[1].pc = "yield_error")
    /\ [][conn'[1].beats # conn[1].beats => queue'[1] = queue[1]]_vars

\* Two broadcasts were put on the queue and both were emitted, in order,
\* on a connection that also sent heartbeats and is still open.
C26_Witness ==
    /\ Len(enqueued[1]) = 2
    /\ Emitted(1, 1)
    /\ Emitted(1, 2)
    /\ conn[1].beats = 2
    /\ queue[1] = <<>>
    /\ conn[1].pc = "waiting"
    /\ 1 \in connected_clients

\* C28: whenever /health returns a payload its top-level status is "ok",
\* whether both probes returned, one raised or both raised; a raising probe
\* shows only in the entry of its service.
C28_StatusAlwaysOk ==
    (health # NoHealth /\ ~health.raised) =>
        /\ health.status = "ok"
        /\ \A svc \in {"jira", "confluence"} :
             health.services[svc] # "ok" <=> health.probes[svc].raised

\* A payload returned after both probes raised: status "ok", both entries errors
C28_Witness ==
    /\ health.probes = Both(Raises("refused"), Raises("refused"))
    /\ ~health.raised
    /\ health.status = "ok"
    /\ health.services = Both("error: refused", "error: refused")

====
